---- MODULE Spec2Model ----
(***************************************************************************)
(* A model of utilities.plotting_style: the palette constants and their    *)
(* derived colormaps, apply_style (global rcParams, colour cycle, colormap *)
(* registration, the active-colormap slot, the optional font step),        *)
(* set_title and style_plot acting on one axes.                            *)
(*                                                                         *)
(* A Python str of axis-label / title text is a sequence of one-character  *)
(* strings; a hex colour is a TLA+ string; Python's None has one value per *)
(* type it stands in for (NoneCmap, NoneStr, NoneFont, NoneDf).            *)
(***************************************************************************)
EXTENDS Integers, Sequences, FiniteSets, TLC

\* ---------------------------------------------------------------- bounds
MaxPaletteLen == 2
MaxStrLen == 2
MaxCalls == 2
MaxNUnique == 3
MaxLegendCols == 2
MaxHandles == 2

\* ------------------------------------------------- Python None, by type
NoneCmap == [name |-> "None", colors |-> << >>, N |-> 0]

NoneStr == << "None" >>

NoneFont == [family |-> "None", weight |-> 0]

NoneDf == [columns |-> { }, nunique |-> 0]

\* ------------------------------------------------------------- palettes
OKABE_ITO ==
    << "#0072B2", "#E69F00", "#009E73", "#CC79A7", "#56B4E9", "#F0E442", "#D55E00" >>

KIWIISH ==
    << "#7CFF6B", "#00B3A4", "#F0E442", "#B45CFF", "#56B4E9", "#FF8A00", "#0072B2" >>

\* str.lower() on the hex strings the model uses.
HexLower(c) ==
    CASE c = "#0072B2" -> "#0072b2"
      [] c = "#E69F00" -> "#e69f00"
      [] c = "#009E73" -> "#009e73"
      [] c = "#CC79A7" -> "#cc79a7"
      [] c = "#56B4E9" -> "#56b4e9"
      [] c = "#F0E442" -> "#f0e442"
      [] c = "#D55E00" -> "#d55e00"
      [] c = "#7CFF6B" -> "#7cff6b"
      [] c = "#00B3A4" -> "#00b3a4"
      [] c = "#B45CFF" -> "#b45cff"
      [] c = "#FF8A00" -> "#ff8a00"
      [] OTHER -> c

\* Position of a lower-cased hex string in Python's str ordering.
LexRank(k) ==
    CASE k = "#0072b2" -> 1
      [] k = "#009e73" -> 2
      [] k = "#00b3a4" -> 3
      [] k = "#56b4e9" -> 4
      [] k = "#7cff6b" -> 5
      [] k = "#b45cff" -> 6
      [] k = "#cc79a7" -> 7
      [] k = "#d55e00" -> 8
      [] k = "#e69f00" -> 9
      [] k = "#f0e442" -> 10
      [] k = "#ff8a00" -> 11

\* The sort key of _sorted_hex: key=lambda c: c.lower().
SortKey(c) == LexRank(HexLower(c))

\* Insert c into an already sorted list after every element whose key is <=
\* its own (sorted() is stable: equal keys keep their input order).
RECURSIVE InsertStable(_, _)
InsertStable(sortedList, c) ==
    IF sortedList = << >> THEN << c >>
    ELSE IF SortKey(Head(sortedList)) <= SortKey(c)
         THEN << Head(sortedList) >> \o InsertStable(Tail(sortedList), c)
         ELSE << c >> \o sortedList

RECURSIVE SortFrom(_, _)
SortFrom(acc, rest) ==
    IF rest = << >> THEN acc
    ELSE SortFrom(InsertStable(acc, Head(rest)), Tail(rest))

_sorted_hex(colors) == SortFrom(<< >>, colors)

\* LinearSegmentedColormap.from_list(name, colors, N): the colormap is
\* determined by its name, the colour list in the order given, and N.
FromList(name, colors, n) == [name |-> name, colors |-> colors, N |-> n]

OKABE_ITO_CMAP == FromList("okabe_ito_cont", _sorted_hex(OKABE_ITO), 256)

KIWIISH_CMAP == FromList("kiwiish_cont", _sorted_hex(KIWIISH), 256)

\* ------------------------------------------------------- input domains
SmallColors == { "#0072B2", "#E69F00" }

RECURSIVE SeqsUpTo(_, _)
SeqsUpTo(S, n) ==
    IF n = 0 THEN { << >> }
    ELSE LET shorter == SeqsUpTo(S, n - 1)
         IN  shorter \cup { Append(s, x) : s \in { t \in shorter : Len(t) = n - 1 }, x \in S }

Reverse(s) == [ i \in 1..Len(s) |-> s[Len(s) + 1 - i] ]

\* Palettes a caller passes: the two built-ins (as copies), a reordering of
\* one, and every list of MaxPaletteLen colours over SmallColors.
Palettes ==
    { OKABE_ITO, KIWIISH, Reverse(OKABE_ITO) }
        \cup { p \in SeqsUpTo(SmallColors, MaxPaletteLen) : Len(p) = MaxPaletteLen }

\* Explicit cmap arguments.
ExplicitCmaps == { FromList("brand", << "#E69F00", "#0072B2" >>, 256) }

FontNames == { "Funnel Sans" }

\* ------------------------------------------------------------ text model
Chars == { "a", "B", " " }

Texts ==
    SeqsUpTo(Chars, MaxStrLen)
        \cup { << "a", " ", " ", "B", "a" >>, << " ", "a", "B", " " >> }

IsSpace(c) == c = " "

IsCased(c) == c \in { "a", "A", "b", "B" }

CharUpper(c) == CASE c = "a" -> "A" [] c = "b" -> "B" [] OTHER -> c

CharLower(c) == CASE c = "A" -> "a" [] c = "B" -> "b" [] OTHER -> c

\* s.strip()
RECURSIVE LStrip(_)
LStrip(s) == IF s # << >> /\ IsSpace(Head(s)) THEN LStrip(Tail(s)) ELSE s

Strip(s) == Reverse(LStrip(Reverse(LStrip(s))))

\* re.sub(r"\s+", " ", s)
RECURSIVE CollapseSpaces(_)
CollapseSpaces(s) ==
    IF s = << >> THEN << >>
    ELSE IF IsSpace(Head(s))
         THEN << " " >> \o CollapseSpaces(LStrip(Tail(s)))
         ELSE << Head(s) >> \o CollapseSpaces(Tail(s))

\* str.title(): a cased character is upper-cased when the previous character
\* is uncased, lower-cased otherwise; uncased characters are kept.
RECURSIVE TitleFrom(_, _)
TitleFrom(s, prevCased) ==
    IF s = << >> THEN << >>
    ELSE LET c == Head(s)
         IN  IF IsCased(c)
             THEN << IF prevCased THEN CharLower(c) ELSE CharUpper(c) >>
                      \o TitleFrom(Tail(s), TRUE)
             ELSE << c >> \o TitleFrom(Tail(s), FALSE)

StrTitle(s) == TitleFrom(s, FALSE)

_title_case(s) == StrTitle(CollapseSpaces(Strip(s)))

\* Python truthiness of an Optional[str].
Truthy(s) == s # NoneStr /\ s # << >>

\* ------------------------------------------------------------------ state
VARIABLES
    snsAvailable,     \* module import: seaborn imported (sns is not None)
    fontAvailable,    \* module import: pyfonts imported
    regApi,           \* the installed matplotlib: which registration API works
    snsState,         \* seaborn's theme and palette
    rcCore,           \* the fixed bundle of rcParams keys has been written
    rcTitleLocation,  \* mpl.rcParams["axes.titlelocation"]
    rcPropCycle,      \* mpl.rcParams["axes.prop_cycle"] colour list
    rcImageCmap,      \* mpl.rcParams["image.cmap"]
    registry,         \* matplotlib's colormap registry
    activeCmap,       \* _ACTIVE_CMAP
    defaultFont,      \* the font made default by set_default_font
    ax,               \* the caller's axes
    lastStyle,        \* the most recent apply_style call: arguments, outcome
    lastAx,           \* the most recent set_title / style_plot call
    lastOp,           \* which function was called most recently
    calls             \* number of apply_style calls made so far

vars ==
    << snsAvailable, fontAvailable, regApi, snsState, rcCore, rcTitleLocation, rcPropCycle,
       rcImageCmap, registry, activeCmap, defaultFont, ax, lastStyle, lastAx,
       lastOp, calls >>

globalVars ==
    << snsState, rcCore, rcTitleLocation, rcPropCycle, rcImageCmap, registry,
       activeCmap, defaultFont >>

\* matplotlib's defaults before any call.
MplDefaultCycle == << "tab10" >>

MplDefaultCmap == FromList("viridis", << "#440154", "#fde725" >>, 256)

\* ------------------------------------------------------------ apply_style
\* ResolveCmap with the palette test ahead of the cmap argument.
ResolveCmapPaletteFirst(cmap, palette) ==
    IF palette = KIWIISH THEN KIWIISH_CMAP
    ELSE IF palette = OKABE_ITO THEN OKABE_ITO_CMAP
    ELSE IF cmap = NoneCmap THEN FromList("custom_cont", palette, 256)
    ELSE cmap

\* Lines 191-197: the colormap apply_style settles on.
ResolveCmap(cmap, palette) ==
    IF cmap = NoneCmap
    THEN IF palette = KIWIISH THEN KIWIISH_CMAP
         ELSE IF palette = OKABE_ITO THEN OKABE_ITO_CMAP
         ELSE FromList("custom_cont", palette, 256)
    ELSE cmap

\* The registry is kept as its set of registered names; registering under a
\* name already present (force=True) leaves the key set as it is.
RegistryPut(reg, cmap) == reg \cup { cmap.name }

\* The installed matplotlib: mpl.colormaps.register works ("primary"), only
\* the older mpl.cm.register_cmap works ("legacy"), or neither ("none").
RegApis == { "primary", "legacy", "none" }

\* RegisterCmap without the inner try: a failing fallback propagates.
RegisterCmapNoInnerTry(reg, cmap, primaryOk, legacyOk) ==
    IF primaryOk
    THEN [registry |-> reg \cup { cmap.name }, raised |-> FALSE, via |-> "primary"]
    ELSE IF legacyOk
    THEN [registry |-> reg \cup { cmap.name }, raised |-> FALSE, via |-> "legacy"]
    ELSE [registry |-> reg, raised |-> TRUE, via |-> "none"]

\* Lines 200-207: mpl.colormaps.register, on failure mpl.cm.register_cmap,
\* on failure nothing.  primaryOk / legacyOk say whether each API succeeds.
RegisterCmap(reg, cmap, primaryOk, legacyOk) ==
    IF primaryOk THEN [registry |-> RegistryPut(reg, cmap), raised |-> FALSE, via |-> "primary"]
    ELSE IF legacyOk THEN [registry |-> RegistryPut(reg, cmap), raised |-> FALSE, via |-> "legacy"]
    ELSE [registry |-> reg, raised |-> FALSE, via |-> "none"]

AbsentFonts == [base |-> NoneFont, bold |-> NoneFont]

\* FontAttempt without the except clause: a failing provider call propagates.
FontAttemptUncaught(font_name, fail, curDefault) ==
    LET font == [family |-> font_name, weight |-> 400]
        font_bold == [family |-> font_name, weight |-> 800]
        made == IF fail = "load_base" THEN << "load_google_font" >>
                ELSE IF fail = "load_bold" THEN << "load_google_font", "load_google_font" >>
                ELSE << "load_google_font", "load_google_font", "set_default_font" >>
    IN  IF fail = "none"
        THEN [ret |-> [base |-> font, bold |-> font_bold], raised |-> FALSE,
              providerCalls |-> made, defaultFont |-> font]
        ELSE [ret |-> AbsentFonts, raised |-> TRUE, providerCalls |-> made,
              defaultFont |-> curDefault]

\* Lines 218-224: the provider calls inside the try block.  fail names the
\* call that raises ("none", "load_base", "load_bold", "set_default").
FontAttempt(font_name, fail, curDefault) ==
    LET font == [family |-> font_name, weight |-> 400]
        font_bold == [family |-> font_name, weight |-> 800]
    IN  IF fail = "load_base"
        THEN [ret |-> AbsentFonts, raised |-> FALSE,
              providerCalls |-> << "load_google_font" >>,
              defaultFont |-> curDefault]
        ELSE IF fail = "load_bold"
        THEN [ret |-> AbsentFonts, raised |-> FALSE,
              providerCalls |-> << "load_google_font", "load_google_font" >>,
              defaultFont |-> curDefault]
        ELSE IF fail = "set_default"
        THEN [ret |-> AbsentFonts, raised |-> FALSE,
              providerCalls |->
                  << "load_google_font", "load_google_font", "set_default_font" >>,
              defaultFont |-> curDefault]
        ELSE [ret |-> [base |-> font, bold |-> font_bold], raised |-> FALSE,
              providerCalls |->
                  << "load_google_font", "load_google_font", "set_default_font" >>,
              defaultFont |-> font]

\* FontStep that tests install_font alone.
FontStepNoAvailabilityTest(install_font, font_name, fail, curDefault) ==
    IF ~install_font
    THEN [ret |-> AbsentFonts, raised |-> FALSE, providerCalls |-> << >>,
          defaultFont |-> curDefault]
    ELSE [ret |-> AbsentFonts, raised |-> FALSE,
          providerCalls |-> << "load_google_font" >>, defaultFont |-> curDefault]

\* Lines 215-224: the font step, skipped when not asked for or when pyfonts
\* is missing.
FontStep(install_font, font_name, fail, curDefault) ==
    IF (~install_font) \/ ~fontAvailable
    THEN [ret |-> AbsentFonts, raised |-> FALSE, providerCalls |-> << >>,
          defaultFont |-> curDefault]
    ELSE FontAttempt(font_name, fail, curDefault)

FontFailures == { "none", "load_base", "load_bold", "set_default" }

\* PropCycle through the sort used for the colormaps.
PropCycleSorted(palette) == _sorted_hex(palette)

\* Line 188: the colour cycle written to rcParams["axes.prop_cycle"].
PropCycle(palette) == palette

\* Lines 109-111: the seaborn theme and palette, when seaborn is used.
SeabornStep(use_seaborn, palette, cur) ==
    IF use_seaborn /\ snsAvailable
    THEN [theme |-> "white/notebook", palette |-> palette]
    ELSE cur

apply_style(use_seaborn, palette, install_font, font_name, cmap, primaryOk, legacyOk, fail) ==
    LET chosen == ResolveCmap(cmap, palette)
        reg == RegisterCmap(registry, chosen, primaryOk, legacyOk)
        fonts == FontStep(install_font, font_name, fail, defaultFont)
        call == [op |-> "apply_style", palette |-> palette, cmap |-> cmap,
                 use_seaborn |-> use_seaborn, install_font |-> install_font,
                 registered |-> reg.via, fail |-> fail]
    IN  /\ snsState' = SeabornStep(use_seaborn, palette, snsState)
        /\ rcCore' = TRUE
        /\ rcTitleLocation' = "left"
        /\ rcPropCycle' = PropCycle(palette)
        /\ registry' = reg.registry
        /\ IF reg.raised
           THEN /\ UNCHANGED << rcImageCmap, activeCmap, defaultFont >>
                /\ lastStyle' = call @@ [providerCalls |-> << >>, outcome |-> "raised",
                                        ret |-> AbsentFonts]
           ELSE /\ rcImageCmap' = chosen.name
                /\ activeCmap' = chosen
                /\ defaultFont' = fonts.defaultFont
                /\ lastStyle' = call @@ [providerCalls |-> fonts.providerCalls,
                                         outcome |-> IF fonts.raised THEN "raised"
                                                     ELSE "returned",
                                         ret |-> fonts.ret]
        /\ lastOp' = "apply_style"
        /\ UNCHANGED << snsAvailable, fontAvailable, regApi, ax, lastAx >>

\* A call of apply_style with arguments from the given sets.  Whether a
\* registration API succeeds is a fact of the installed matplotlib; which
\* font provider call fails, if any, is drawn per call, and only when the
\* font step runs.
ApplyStyleIn(seabornSet, paletteSet, installSet, cmapSet) ==
    \E use_seaborn \in seabornSet, palette \in paletteSet, install_font \in installSet,
       font_name \in FontNames, cmap \in cmapSet :
        \E fail \in (IF install_font /\ fontAvailable THEN FontFailures ELSE { "none" }) :
            /\ calls < MaxCalls
            /\ calls' = calls + 1
            /\ apply_style(use_seaborn, palette, install_font, font_name, cmap,
                           regApi = "primary", regApi = "legacy", fail)

ApplyStyle == ApplyStyleIn(BOOLEAN, Palettes, BOOLEAN, ExplicitCmaps \cup { NoneCmap })

\* apply_style(), every argument at its default.
ApplyStyleDefaults == ApplyStyleIn({ TRUE }, { OKABE_ITO }, { TRUE }, { NoneCmap })

\* apply_style(use_seaborn=False, install_font=False, palette=..., cmap=...)
SessionPalettes == { OKABE_ITO, << "#E69F00", "#0072B2" >> }

ApplyStyleColors ==
    ApplyStyleIn({ FALSE }, SessionPalettes, { FALSE }, ExplicitCmaps \cup { NoneCmap })

\* -------------------------------------------------------------- set_title
\* Default title_y = 1.12 and subtitle_gap = 0.04, in hundredths of the axes
\* height.
TitleY == 112

SubtitleGap == 4

\* Lines 284-287: the title and subtitle after the title_case step.
CasedTitle(title, subtitle, title_case) ==
    IF title_case /\ Truthy(title) THEN _title_case(title) ELSE title

CasedSubtitle(title, subtitle, title_case) ==
    IF title_case /\ Truthy(title) /\ Truthy(subtitle) THEN _title_case(subtitle)
    ELSE subtitle

\* Lines 292-298: horizontal anchor from rcParams["axes.titlelocation"].
Anchor(loc) ==
    IF loc = "left" THEN [x |-> 0, ha |-> "left"]
    ELSE IF loc = "right" THEN [x |-> 100, ha |-> "right"]
    ELSE [x |-> 50, ha |-> "center"]

set_title(title, subtitle, title_case) ==
    LET t == CasedTitle(title, subtitle, title_case)
        sub == CasedSubtitle(title, subtitle, title_case)
        at == Anchor(rcTitleLocation)
        titleText == [x |-> at.x, y |-> TitleY, s |-> t, ha |-> at.ha]
        subText == [x |-> at.x, y |-> TitleY - SubtitleGap, s |-> sub, ha |-> at.ha]
    IN  /\ ax' = [ax EXCEPT !.title = << >>,
                            !.texts = IF Truthy(sub)
                                      THEN ax.texts \o << titleText, subText >>
                                      ELSE ax.texts \o << titleText >>]
        /\ lastAx' = [op |-> "set_title", title |-> title, subtitle |-> subtitle,
                      title_case |-> title_case, drawn |-> IF Truthy(sub) THEN 2 ELSE 1]
        /\ lastOp' = "set_title"
        /\ UNCHANGED << snsAvailable, fontAvailable, regApi, globalVars, lastStyle, calls >>

Subtitles == { NoneStr, << >>, << " " >>, << "a", " ", "B" >> }

\* A call draws one or two texts; MaxTexts bounds the texts on the axes.
MaxTexts == 2

SetTitle ==
    \E title \in Texts, subtitle \in Subtitles, title_case \in BOOLEAN :
        /\ Len(ax.texts) + 2 <= MaxTexts
        /\ set_title(title, subtitle, title_case)

\* ------------------------------------------------------------- style_plot
NoneColumn == "None"

\* df[legend_column].nunique(): the frame has the one column "series".
\* Lines 358-364: the number of legend items.
NItems(df, legend_column, labels) ==
    IF df # NoneDf /\ legend_column # NoneColumn
    THEN IF legend_column \in df.columns THEN df.nunique ELSE Len(labels)
    ELSE Len(labels)

Max2(a, b) == IF a >= b THEN a ELSE b

Min2(a, b) == IF a <= b THEN a ELSE b

\* LegendNcol without the upper cap.
LegendNcolNoCap(n_items, legend_max_cols) == Max2(1, n_items)

\* Line 366.
LegendNcol(n_items, legend_max_cols) == Max2(1, Min2(n_items, legend_max_cols))

\* RebuildLegend that adds a legend next to the one already there.
RebuildLegendStacked(a, df, legend_column, legend, legend_max_cols) ==
    IF legend /\ a.artistLabels # << >>
    THEN [a EXCEPT !.legend =
              Append(@, [handles |-> [i \in 1..Len(a.artistLabels) |-> i],
                         labels |-> a.artistLabels,
                         ncol |-> Max2(1, Min2(Len(a.artistLabels), legend_max_cols))])]
    ELSE a

\* Lines 355-379: ax.legend(handles, labels, ncol=...) replaces the legend of
\* the axes; the handles are the labelled artists, in order.
RebuildLegend(a, df, legend_column, legend, legend_max_cols) ==
    IF legend /\ a.artistLabels # << >>
    THEN [a EXCEPT !.legend =
              << [handles |-> [i \in 1..Len(a.artistLabels) |-> i],
                  labels |-> a.artistLabels,
                  ncol |-> LegendNcol(NItems(df, legend_column, a.artistLabels),
                                      legend_max_cols)] >>]
    ELSE a

NoneAxis == "None"

\* Lines 347-352: the digit-grouping formatter on the axes asked for.
FormatAxes(a, format_thousands_axis) ==
    IF format_thousands_axis # NoneAxis /\ format_thousands_axis # ""
    THEN [a EXCEPT !.yFmt = IF format_thousands_axis \in { "y", "both" }
                            THEN "thousands" ELSE @,
                   !.xFmt = IF format_thousands_axis \in { "x", "both" }
                            THEN "thousands" ELSE @]
    ELSE a

\* Lines 382-385.
RelabelAxes(a) ==
    [a EXCEPT !.xlabel = IF Truthy(@) THEN _title_case(@) ELSE @,
              !.ylabel = IF Truthy(@) THEN _title_case(@) ELSE @]

\* ApplyCmap that recolours the images and leaves the collections alone.
ApplyCmapImagesOnly(a, apply_cmap, active) ==
    IF apply_cmap /\ active # NoneCmap
    THEN [a EXCEPT !.images = [i \in 1..Len(@) |-> active]]
    ELSE a

\* Lines 387-392.
ApplyCmap(a, apply_cmap, active) ==
    IF apply_cmap /\ active # NoneCmap
    THEN [a EXCEPT !.images = [i \in 1..Len(@) |-> active],
                   !.collections =
                       [i \in 1..Len(@) |->
                           IF @[i].has_set_cmap THEN [@[i] EXCEPT !.cmap = active]
                           ELSE @[i]]]
    ELSE a

\* Lines 343-344.
RotateTicks(a, x_rotation, y_rotation) ==
    [a EXCEPT !.xRot = x_rotation, !.yRot = y_rotation]

\* style_plot on the axes a, by the arguments args and the value of
\* _ACTIVE_CMAP.
StylePlotAx(a, args, active) ==
    ApplyCmap(
        RelabelAxes(
            RebuildLegend(
                FormatAxes(RotateTicks(a, args.x_rotation, args.y_rotation),
                           args.format_thousands_axis),
                args.df, args.legend_column, args.legend, args.legend_max_cols)),
        args.apply_cmap, active)

style_plot(args) ==
    /\ ax' = StylePlotAx(ax, args, activeCmap)
    /\ lastAx' = [op |-> "style_plot", args |-> args,
                  repeated |-> lastOp = "style_plot" /\ lastAx.args = args]
    /\ lastOp' = "style_plot"
    /\ UNCHANGED << snsAvailable, fontAvailable, regApi, globalVars, lastStyle, calls >>

\* Default arguments of style_plot.
DefaultXRotation == 30

DefaultYRotation == 10

DefaultLegendMaxCols == 6

DefaultArgs ==
    [df |-> NoneDf, legend_column |-> NoneColumn, format_thousands_axis |-> NoneAxis,
     x_rotation |-> DefaultXRotation, y_rotation |-> DefaultYRotation, legend |-> TRUE,
     legend_max_cols |-> DefaultLegendMaxCols, apply_cmap |-> TRUE]

NUniques == (0..MaxNUnique) \cup { 20 }

DataFrames == { [columns |-> { "series" }, nunique |-> n] : n \in NUniques }

LegendMaxCols == (0..MaxLegendCols) \cup { DefaultLegendMaxCols }

\* Calls that vary the legend arguments.
LegendArgs ==
    { [DefaultArgs EXCEPT !.df = d, !.legend_column = c, !.legend = l,
                          !.legend_max_cols = m] :
        d \in DataFrames \cup { NoneDf }, c \in { NoneColumn, "series", "missing" },
        l \in BOOLEAN, m \in LegendMaxCols }

\* Calls that vary the formatter, legend-on/off, legend-sizing frame and
\* colormap arguments.
PlotArgs ==
    { [DefaultArgs EXCEPT !.format_thousands_axis = f, !.legend = l, !.apply_cmap = c,
                          !.df = d, !.legend_column = IF d = NoneDf THEN NoneColumn
                                                      ELSE "series"] :
        f \in { NoneAxis, "x", "y", "both" }, l \in BOOLEAN, c \in BOOLEAN,
        d \in { NoneDf, [columns |-> { "series" }, nunique |-> 1] } }

StylePlotLegend == \E args \in LegendArgs : style_plot(args)

StylePlot == \E args \in PlotArgs : style_plot(args)

\* ------------------------------------------------------------------- Init
InitAxes ==
    [title |-> << >>, texts |-> << >>, xRot |-> 0, yRot |-> 0,
     xFmt |-> "ScalarFormatter", yFmt |-> "ScalarFormatter", legend |-> << >>,
     artistLabels |-> << >>, xlabel |-> << >>, ylabel |-> << >>,
     images |-> << >>, collections |-> << >>]

InitGlobals ==
    /\ snsAvailable \in BOOLEAN
    /\ fontAvailable \in BOOLEAN
    /\ regApi \in RegApis
    /\ snsState = [theme |-> "default", palette |-> MplDefaultCycle]
    /\ rcCore = FALSE
    /\ rcTitleLocation = "center"
    /\ rcPropCycle = MplDefaultCycle
    /\ rcImageCmap = MplDefaultCmap.name
    /\ registry = { MplDefaultCmap.name }
    /\ activeCmap = NoneCmap
    /\ defaultFont = NoneFont
    /\ lastStyle = [op |-> "none"]
    /\ lastAx = [op |-> "none"]
    /\ lastOp = "none"
    /\ calls = 0

\* The environment in which seaborn, pyfonts and mpl.colormaps.register are
\* all there.
InitFullEnv ==
    /\ InitGlobals
    /\ snsAvailable
    /\ fontAvailable
    /\ regApi = "primary"

InitStyle ==
    /\ InitGlobals
    /\ ax = InitAxes

NextStyle == ApplyStyle

\* apply_style alone, every argument and every environment.
SpecStyle == InitStyle /\ [][NextStyle]_vars

\* Axes as the caller has plotted them, before any styling.
Series == << "s1", "s2", "s3", "s4" >>

PlottedAxes ==
    { [InitAxes EXCEPT !.artistLabels = SubSeq(Series, 1, n), !.xlabel = xl,
                       !.ylabel = yl, !.images = im, !.collections = co] :
        n \in { 0, MaxHandles }, xl \in { << "a", " ", " ", "B", "a" >> },
        yl \in { << >> },
        im \in { << MplDefaultCmap >> },
        co \in { << >>, << [has_set_cmap |-> TRUE, cmap |-> MplDefaultCmap],
                          [has_set_cmap |-> FALSE, cmap |-> NoneCmap] >> } }

InitPlot ==
    /\ InitFullEnv
    /\ ax \in PlottedAxes

NextPlot == ApplyStyleColors \/ StylePlot

\* apply_style and style_plot in any order on one axes.
SpecPlot == InitPlot /\ [][NextPlot]_vars

InitLegend ==
    /\ InitFullEnv
    /\ ax \in { [InitAxes EXCEPT !.artistLabels = SubSeq(Series, 1, n)] :
                  n \in 0..MaxHandles }

NextLegend == StylePlotLegend

\* style_plot building the legend of an axes with 0..MaxHandles labelled artists.
SpecLegend == InitLegend /\ [][NextLegend]_vars

InitTitle ==
    /\ InitFullEnv
    /\ ax \in { [InitAxes EXCEPT !.title = t] : t \in { << >>, << "a" >> } }

NextTitle == ApplyStyleDefaults \/ SetTitle

\* set_title before or after apply_style().
SpecTitle == InitTitle /\ [][NextTitle]_vars


\* ================================================================ claims
Styled == lastStyle.op = "apply_style"

Returned == Styled /\ lastStyle.outcome = "returned"

\* The colormap the documentation asks apply_style to settle on: the cmap
\* argument when given, else the built-in colormap of a built-in palette, else
\* an interpolation over the palette as given.
ExpectedCmap(cmap, palette) ==
    CASE cmap # NoneCmap -> cmap
      [] cmap = NoneCmap /\ palette = OKABE_ITO ->
            [name |-> "okabe_ito_cont", colors |-> _sorted_hex(OKABE_ITO), N |-> 256]
      [] cmap = NoneCmap /\ palette = KIWIISH ->
            [name |-> "kiwiish_cont", colors |-> _sorted_hex(KIWIISH), N |-> 256]
      [] OTHER -> [name |-> "custom_cont", colors |-> palette, N |-> 256]

Count(seq, c) == Cardinality({ i \in 1..Len(seq) : seq[i] = c })

IsPermutation(p, q) ==
    /\ Len(p) = Len(q)
    /\ \A i \in 1..Len(p) : Count(p, p[i]) = Count(q, p[i])

ColorValues(colors) == [i \in 1..Len(colors) |-> HexLower(colors[i])]

\* C1: after apply_style(palette=P) with no cmap argument, the colour list
\* of the colormap in use is the one every permutation Q of P would give.
C1_PermutationSameCmap ==
    (Styled /\ lastStyle.cmap = NoneCmap) =>
        \A q \in Palettes :
            IsPermutation(q, lastStyle.palette) =>
                ColorValues(ResolveCmap(NoneCmap, q).colors) = ColorValues(activeCmap.colors)

\* C2: after apply_style(palette=P) returns, axes.prop_cycle is exactly P, in
\* the caller's order, whatever use_seaborn, install_font and cmap are.
C2_CycleIsPalette == Returned => rcPropCycle = lastStyle.palette

C2_Witness ==
    /\ Returned
    /\ calls = 2
    /\ lastStyle.palette = << "#E69F00", "#0072B2" >>
    /\ rcPropCycle = << "#E69F00", "#0072B2" >>
    /\ lastStyle.cmap # NoneCmap
    /\ lastStyle.use_seaborn

\* C3: when install_font is false or the font provider is missing,
\* apply_style returns normally with base and bold both absent and makes no
\* call to the font provider, with or without seaborn.
C3_SkippedFontStep ==
    (Styled /\ ((~lastStyle.install_font) \/ ~fontAvailable)) =>
        /\ lastStyle.outcome = "returned"
        /\ lastStyle.ret = AbsentFonts
        /\ lastStyle.providerCalls = << >>

C3_Witness ==
    /\ Styled
    /\ lastStyle.install_font
    /\ ~fontAvailable
    /\ ~snsAvailable
    /\ lastStyle.outcome = "returned"
    /\ lastStyle.ret = AbsentFonts

\* C4: when the font step is attempted and one of its three calls fails,
\* apply_style returns both fonts absent and does not raise, and the rcParams
\* keys, colour cycle, image colormap and active colormap of the call stay.
C4_FontFailureSwallowed ==
    (Styled /\ lastStyle.install_font /\ fontAvailable /\ lastStyle.fail # "none") =>
        /\ lastStyle.outcome = "returned"
        /\ lastStyle.ret = AbsentFonts
        /\ rcCore
        /\ rcPropCycle = lastStyle.palette
        /\ rcImageCmap = ExpectedCmap(lastStyle.cmap, lastStyle.palette).name
        /\ activeCmap = ExpectedCmap(lastStyle.cmap, lastStyle.palette)

C4_Witness ==
    /\ Styled
    /\ lastStyle.install_font
    /\ fontAvailable
    /\ lastStyle.fail = "load_bold"
    /\ lastStyle.providerCalls = << "load_google_font", "load_google_font" >>
    /\ lastStyle.ret = AbsentFonts
    /\ activeCmap = KIWIISH_CMAP

\* C7: every apply_style call stores the resolved colormap in _ACTIVE_CMAP
\* and sets image.cmap, whether registration went through the primary API,
\* the legacy one or neither; the call does not raise and the font step runs.
C7_ActiveCmapRecorded ==
    Styled =>
        /\ lastStyle.outcome # "raised"
        /\ activeCmap = ExpectedCmap(lastStyle.cmap, lastStyle.palette)
        /\ rcImageCmap = activeCmap.name
        /\ (lastStyle.install_font /\ fontAvailable) => lastStyle.providerCalls # << >>

C7_Witness ==
    /\ Styled
    /\ regApi = "none"
    /\ lastStyle.registered = "none"
    /\ registry = { MplDefaultCmap.name }
    /\ activeCmap = OKABE_ITO_CMAP
    /\ rcImageCmap = "okabe_ito_cont"
    /\ lastStyle.providerCalls # << >>

\* C8: the colormap is the cmap argument when given; else the built-in
\* colormap when the palette equals a built-in palette element for element;
\* else an unsorted interpolation over the palette; and that colormap is
\* the image default and the active colormap.
C8_CmapPriority ==
    Styled =>
        /\ (lastStyle.cmap # NoneCmap) => activeCmap = lastStyle.cmap
        /\ (lastStyle.cmap = NoneCmap /\ lastStyle.palette = OKABE_ITO) =>
               activeCmap = OKABE_ITO_CMAP
        /\ (lastStyle.cmap = NoneCmap /\ lastStyle.palette = KIWIISH) =>
               activeCmap = KIWIISH_CMAP
        /\ (lastStyle.cmap = NoneCmap /\ lastStyle.palette \notin { OKABE_ITO, KIWIISH }) =>
               activeCmap = [name |-> "custom_cont", colors |-> lastStyle.palette, N |-> 256]
        /\ rcImageCmap = activeCmap.name

C8_Witness ==
    /\ Styled
    /\ lastStyle.cmap = NoneCmap
    /\ lastStyle.palette = Reverse(OKABE_ITO)
    /\ activeCmap.name = "custom_cont"
    /\ activeCmap.colors = Reverse(OKABE_ITO)
    /\ activeCmap.colors # OKABE_ITO_CMAP.colors

Plotted == lastOp = "style_plot"

\* The legend item count the documentation describes.
ExpectedItems ==
    IF lastAx.args.df # NoneDf /\ lastAx.args.legend_column = "series"
    THEN lastAx.args.df.nunique
    ELSE Len(ax.artistLabels)

Clamp(n, lo, hi) == IF n < lo THEN lo ELSE IF n > hi THEN hi ELSE n

LegendRebuilt == Plotted /\ lastAx.args.legend /\ ax.artistLabels # << >>

\* C5 as stated: whenever the legend is rebuilt, 1 <= ncol <= legend_max_cols
\* and ncol is n clamped into that range, for every n and legend_max_cols.
C5_ClampedForEveryMax ==
    LegendRebuilt =>
        /\ Len(ax.legend) = 1
        /\ 1 <= ax.legend[1].ncol
        /\ ax.legend[1].ncol <= lastAx.args.legend_max_cols
        /\ ax.legend[1].ncol = Clamp(ExpectedItems, 1, lastAx.args.legend_max_cols)

\* C5 amended: whenever the legend is rebuilt, ncol >= 1; for
\* legend_max_cols >= 1 it is n clamped into 1..legend_max_cols, and for
\* legend_max_cols < 1 it is 1.
C5_ClampedForPositiveMax ==
    LegendRebuilt =>
        /\ Len(ax.legend) = 1
        /\ 1 <= ax.legend[1].ncol
        /\ (lastAx.args.legend_max_cols >= 1) =>
               /\ ax.legend[1].ncol <= lastAx.args.legend_max_cols
               /\ ax.legend[1].ncol = Clamp(ExpectedItems, 1, lastAx.args.legend_max_cols)
        /\ (lastAx.args.legend_max_cols < 1) => ax.legend[1].ncol = 1

C5_Witness ==
    /\ LegendRebuilt
    /\ lastAx.args.df # NoneDf
    /\ lastAx.args.df.nunique = 20
    /\ lastAx.args.legend_column = "series"
    /\ lastAx.args.legend_max_cols = 6
    /\ ax.legend[1].ncol = 6

\* C6: a style_plot call that repeats the arguments of the style_plot call
\* just before it leaves the axes as that call left them; the axes carry at
\* most one legend, and with format_thousands_axis="y" the y formatter is the
\* digit-grouping one after the call.
C6_Idempotent ==
    [][ /\ (lastOp = "style_plot" /\ lastOp' = "style_plot"
            /\ lastAx'.args = lastAx.args) => ax' = ax
        /\ (lastOp' = "style_plot") =>
               /\ Len(ax'.legend) <= 1
               /\ (lastAx'.args.format_thousands_axis = "y") => ax'.yFmt = "thousands"
      ]_vars

C6_Witness ==
    /\ Plotted
    /\ lastAx.repeated
    /\ lastAx.args.format_thousands_axis = "y"
    /\ ax.yFmt = "thousands"
    /\ Len(ax.legend) = 1
    /\ lastAx.args.df # NoneDf
    /\ ax.legend[1].ncol = 1
    /\ ax.xlabel = << "A", " ", "B", "a" >>
    /\ activeCmap # NoneCmap
    /\ ax.images = << activeCmap >>

Titled == lastOp = "set_title"

\* The subtitle text on the axes after the last set_title call: the text at
\* title_y - subtitle_gap when one was drawn, the empty string otherwise.
DrawnSubtitle ==
    IF lastAx.drawn = 2 THEN ax.texts[Len(ax.texts)].s ELSE << >>

DrawnTitle ==
    IF lastAx.drawn = 2 THEN ax.texts[Len(ax.texts) - 1].s ELSE ax.texts[Len(ax.texts)].s

\* C9: with title_case on, a non-empty subtitle is drawn whitespace-normalised
\* and title-cased for every title, the empty one included, and the title is
\* drawn cased whatever the subtitle is.
C9_SubtitleCasedForEveryTitle ==
    (Titled /\ lastAx.title_case) =>
        /\ Truthy(lastAx.subtitle) => DrawnSubtitle = _title_case(lastAx.subtitle)
        /\ DrawnTitle = _title_case(lastAx.title)

ArtifactCmaps(a) ==
    << a.images, [i \in 1..Len(a.collections) |-> a.collections[i].cmap] >>

\* C10: _ACTIVE_CMAP is unset before the first apply_style call and afterwards
\* is the colormap of the most recent one, named as image.cmap is; style_plot
\* with apply_cmap gives it to every image and every collection that has
\* set_cmap, and changes no colormap when it is unset or apply_cmap is false.
C10_ActiveCmapSlot ==
    /\ [](/\ (lastStyle.op = "none") => activeCmap = NoneCmap
          /\ Styled => /\ activeCmap = ExpectedCmap(lastStyle.cmap, lastStyle.palette)
                       /\ activeCmap # NoneCmap
                       /\ rcImageCmap = activeCmap.name
          /\ (Plotted /\ lastAx.args.apply_cmap /\ activeCmap # NoneCmap) =>
                 /\ \A i \in 1..Len(ax.images) : ax.images[i] = activeCmap
                 /\ \A i \in 1..Len(ax.collections) :
                        ax.collections[i].has_set_cmap =>
                            ax.collections[i].cmap = activeCmap)
    /\ [][ (lastOp' = "style_plot" /\ (activeCmap = NoneCmap \/ ~lastAx'.args.apply_cmap))
               => ArtifactCmaps(ax') = ArtifactCmaps(ax)
         ]_vars

C10_Witness ==
    /\ Plotted
    /\ calls = 2
    /\ lastAx.args.apply_cmap
    /\ lastStyle.palette = << "#E69F00", "#0072B2" >>
    /\ lastStyle.cmap = NoneCmap
    /\ ax.images = << FromList("custom_cont", << "#E69F00", "#0072B2" >>, 256) >>
    /\ Len(ax.collections) = 2
    /\ ax.collections[1].cmap = activeCmap
    /\ ax.collections[2].cmap = NoneCmap

====
